---------------------------- MODULE Spec2Model ----------------------------
(***************************************************************************)
(* Model of the smart-energy-grid analytics core:                          *)
(*   - the anomaly-detection Lambda (detectAnomaly and the per-record body *)
(*     of its Handler),                                                    *)
(*   - the analytics-processing Lambda (Handler, getReadingsForDate,       *)
(*     calculateDailyAnalytics and its helpers),                           *)
(*   - the API path POST analytics/generate ->                             *)
(*     AnalyticsService.GenerateDailyReport -> analytics Lambda,           *)
(*   - generateRecommendations, getHistoricalReadings and                  *)
(*     ReadingService.FromMQTT, each under a specification of its own,     *)
(*   - the cost model of the daily report, the anomaly Handler over a      *)
(*     batch of stream records, AlertService (CreateAlert,                 *)
(*     DetectAnomalies) and the dashboard's websocket server.              *)
(*                                                                         *)
(* Numbers.  Readings carry integer powers, voltages and currents.  A      *)
(* float64 quotient is kept as an exact fraction [num, den] with den > 0;  *)
(* a value rounded to n decimals is kept as the integer number of 10^-n    *)
(* units (round2 -> hundredths, round3 -> thousandths).  Arithmetic is     *)
(* exact: binary floating-point representation error is not modelled.      *)
(***************************************************************************)
EXTENDS Integers, Sequences, FiniteSets

VARIABLES
    \* --- anomaly-detection Lambda ---
    anRecord,      \* the stream record under evaluation
    anHistorical,  \* powers of the historical window, ascending time
    anWindow,      \* ANOMALY_WINDOW tunable handed to detectAnomaly
    anSigma,       \* ANOMALY_THRESHOLD_SIGMA tunable handed to detectAnomaly
    an,            \* AnomalyResult of the evaluation, or NoResult
    alerts,        \* Alerts table: sequence of stored alerts
    published,     \* notifications published to the topic
    anPc,          \* "ready" | "skipped" | "histError" | "evaluated" | "alerted"
    \* --- analytics-processing Lambda and API ---
    readingsTable, \* EnergyReadings of the facility, ascending unique timestamp
    lambdaResp,    \* last LambdaResponse of the analytics Handler, or NoResult
    apiResult,     \* last (reportURL, err) of GenerateDailyReport, or NoResult
    httpStatus,    \* last status answered by POST analytics/generate (0: none)
    summaries,     \* AnalyticsSummaries table: stored daily summaries
    reports,       \* report objects uploaded to the bucket
    pageLimit,     \* the pageLimit handed to getReadingsForDate
    dayFetch,      \* last run of getReadingsForDate: what it returned, the
                   \* store queries it issued and whether it logged the
                   \* pagination warning; or NoResult
    \* --- generateRecommendations ---
    recInput,      \* the DailyAnalytics fields the rules read
    recs,          \* [list |-> the recommendations returned], or NoResult
    \* --- getHistoricalReadings ---
    histTable,     \* EnergyReadings of the facility, ascending unique timestamp
    histMeter,     \* the meterID argument
    histLimit,     \* the limit argument
    histStart,     \* now - hours*3600, the lower end of the queried range
    histOut,       \* the ([]Reading, error) returned, or NoResult
    \* --- ReadingService.FromMQTT ---
    mqConfig,      \* the service's wiring: useCloud, hasLambda
    mqCalls,       \* the FromMQTT calls made so far: input, outcome of the
                   \* put, returned error
    mqStore,       \* readings persisted by DynamoDBClient.PutReading
    mqInvocations, \* anomaly-detection goroutines: the call that started
                   \* each and its status "running" | "ok" | "failed"
    \* --- cost model of calculateDailyAnalytics ---
    costTotal,     \* the day's total consumption in kWh, a fraction
    costOut,       \* the reported estimated cost and cost breakdown, or NoResult
    \* --- anomaly Handler over a batch ---
    btBatch,       \* the stream records of the event, each with the outcomes
                   \* its store calls will have
    btOut,         \* what the Handler returned and did per record, or NoResult
    \* --- AlertService ---
    alConfig,      \* the service's wiring: useCloud, hasSNS
    alStore,       \* Alerts table: the alerts stored, keyed by alertId
    alPublished,   \* notifications published to the topic
    alCalls,       \* the CreateAlert / DetectAnomalies calls made so far
    alClock,       \* the instant of the last time.Now(), in clock ticks
    \* --- dashboard server ---
    wsPc,          \* per connection: where its handleWebSocket goroutine is
    wsClients,     \* Server.clients
    bcPc,          \* where the handleBroadcast goroutine is
    bcTodo,        \* connections the range over clients has yet to visit
    bcConn,        \* the connection handleBroadcast is writing to
    bcQueue        \* messages waiting in Server.broadcast

anVars == <<anRecord, anHistorical, anWindow, anSigma, an, alerts, published, anPc>>
dailyVars == <<readingsTable, lambdaResp, apiResult, httpStatus, summaries, reports,
               pageLimit, dayFetch>>
recVars == <<recInput, recs>>
histVars == <<histTable, histMeter, histLimit, histStart, histOut>>
mqVars == <<mqConfig, mqCalls, mqStore, mqInvocations>>
costVars == <<costTotal, costOut>>
btVars == <<btBatch, btOut>>
alVars == <<alConfig, alStore, alPublished, alCalls, alClock>>
wsVars == <<wsPc, wsClients, bcPc, bcTodo, bcConn, bcQueue>>
moreVars == <<costVars, btVars, alVars, wsVars>>
extVars == <<recVars, histVars, mqVars, moreVars>>
vars == <<anVars, dailyVars, extVars>>

NoResult == [none |-> TRUE]

\* the components a specification does not exercise stay as constructed
RecIdle == recInput = NoResult /\ recs = NoResult

HistIdle ==
    /\ histTable = <<>>
    /\ histMeter = ""
    /\ histLimit = 1
    /\ histStart = 0
    /\ histOut = NoResult

MqIdle ==
    /\ mqConfig = [useCloud |-> FALSE, hasLambda |-> FALSE]
    /\ mqCalls = <<>>
    /\ mqStore = <<>>
    /\ mqInvocations = <<>>

CostIdle == costTotal = [num |-> 0, den |-> 1] /\ costOut = NoResult

BatchIdle == btBatch = <<>> /\ btOut = NoResult

AlertsIdle ==
    /\ alConfig = [useCloud |-> FALSE, hasSNS |-> FALSE]
    /\ alStore = {}
    /\ alPublished = <<>>
    /\ alCalls = <<>>
    /\ alClock = 0

\* the websocket connections clients may open
Conns == {"c1", "c2"}

\* no client has connected and nothing is queued for broadcast
WsIdle ==
    /\ wsPc = [c \in Conns |-> "idle"]
    /\ wsClients = {}
    /\ bcPc = "idle"
    /\ bcTodo = {}
    /\ bcConn = ""
    /\ bcQueue = 0

MoreIdle == CostIdle /\ BatchIdle /\ AlertsIdle /\ WsIdle

ExtIdle == RecIdle /\ HistIdle /\ MqIdle /\ MoreIdle

----------------------------------------------------------------------------
(* Bounds of the model *)

MaxHist == 3
MaxReadings == 3
MaxRuns == 2
MaxRows == 4
MaxItems == 53
MaxMsgs == 3

Powers == {-2, 0, 2, 3, 4}
Windows == {0, 2, 24}
Sigmas == {0, 1}
EventNames == {"INSERT", "MODIFY", "REMOVE"}

----------------------------------------------------------------------------
(* Generic helpers *)

RECURSIVE SeqSum(_)
SeqSum(s) == IF s = <<>> THEN 0 ELSE Head(s) + SeqSum(Tail(s))

RECURSIVE SeqSumSq(_)
SeqSumSq(s) == IF s = <<>> THEN 0 ELSE Head(s) * Head(s) + SeqSumSq(Tail(s))

SeqsUpTo(S, n) == UNION {[1..k -> S] : k \in 0..n}

\* math.Round(num/den * 1) for den > 0: nearest integer, halves away from zero
RoundDiv(num, den) ==
    IF num >= 0 THEN (2 * num + den) \div (2 * den)
    ELSE -((2 * (-num) + den) \div (2 * den))

Frac(num, den) == [num |-> num, den |-> den]

\* insert x into the ascending sequence s
RECURSIVE InsertAsc(_, _)
InsertAsc(x, s) ==
    IF s = <<>> THEN <<x>>
    ELSE IF x <= Head(s) THEN <<x>> \o s
    ELSE <<Head(s)>> \o InsertAsc(x, Tail(s))

RECURSIVE SortAsc(_)
SortAsc(s) == IF s = <<>> THEN <<>> ELSE InsertAsc(Head(s), SortAsc(Tail(s)))

----------------------------------------------------------------------------
(* anomaly.AnomalyDetector (library energy-grid-analytics-go/anomaly)       *)

\* the trailing window of at most w points ending at index i
TrailingWindow(lib, i, w) ==
    SubSeq(lib, IF i - w + 1 < 1 THEN 1 ELSE i - w + 1, i)

\* Spike test: point i is flagged when its deviation from the mean of its
\* trailing window exceeds sigma standard deviations of that window:
\*   |x - S/k| > sigma * sqrt(Q/k - (S/k)^2)  <=>  (k*x - S)^2 > sigma^2 * (k*Q - S^2)
DetectSpikes(lib, window, sigma) ==
    {i \in 1..Len(lib) :
        LET W == TrailingWindow(lib, i, window)
            k == Len(W)
            S == SeqSum(W)
            Q == SeqSumSq(W)
            d == k * lib[i] - S
        IN d * d > sigma * sigma * (k * Q - S * S)}

\* quartile q (1 or 3) of the ascending sequence s, times 4, by linear
\* interpolation at position q*(n-1)/4
Quartile4(s, q) ==
    LET n   == Len(s)
        pos == q * (n - 1)
        idx == (pos \div 4) + 1
        fr  == pos % 4
    IN IF fr = 0 THEN 4 * s[idx]
       ELSE 4 * s[idx] + fr * (s[idx + 1] - s[idx])

\* Outlier test: point i is flagged when it lies outside
\* [Q1 - 1.5*IQR, Q3 + 1.5*IQR] of the whole series
DetectOutliers(lib) ==
    IF lib = <<>> THEN {}
    ELSE LET s   == SortAsc(lib)
             q1  == Quartile4(s, 1)
             q3  == Quartile4(s, 3)
             iqr == q3 - q1
         IN {i \in 1..Len(lib) :
                \/ 8 * lib[i] < 2 * q1 - 3 * iqr
                \/ 8 * lib[i] > 2 * q3 + 3 * iqr}

----------------------------------------------------------------------------
(* anomaly-detection Lambda *)

DefaultWindow == 24
DefaultSigma == 2

\* calculateMean: 0 for an empty window, else sum/len
calculateMean(historical) ==
    IF Len(historical) = 0 THEN Frac(0, 1)
    ELSE Frac(SeqSum(historical), Len(historical))

\* the severity ladder: the switch on mean and the current power
\* compares with > where the ladder compares with >=
severityLadderStrict(mean, p) ==
    IF mean.num > 0 /\ p * mean.den > 2 * mean.num THEN "critical"
    ELSE IF mean.num > 0 /\ 2 * p * mean.den > 3 * mean.num THEN "high"
    ELSE "low"

\* the high arm compares with <= where the ladder compares with >=
severityLadderHighFlipped(mean, p) ==
    IF mean.num > 0 /\ p * mean.den >= 2 * mean.num THEN "critical"
    ELSE IF mean.num > 0 /\ 2 * p * mean.den <= 3 * mean.num THEN "high"
    ELSE "low"

severityLadder(mean, p) ==
    IF mean.num > 0 /\ p * mean.den >= 2 * mean.num THEN "critical"
    ELSE IF mean.num > 0 /\ 2 * p * mean.den >= 3 * mean.num THEN "high"
    ELSE "low"

\* the no-history override: a positive first reading is a low anomaly
noHistoryOverrideDropped(n, p) == FALSE

noHistoryOverride(n, p) == n = 0 /\ p > 0

\* the severity detectAnomaly assigns: the ladder over the historical mean,
\* reset to low by the no-history override
severityOf(current, historical) ==
    IF noHistoryOverride(Len(historical), current) THEN "low"
    ELSE severityLadder(calculateMean(historical), current)

detectAnomaly(current, historical, window0, sigma0) ==
    LET window   == IF window0 <= 0 THEN DefaultWindow ELSE window0
        sigma    == IF sigma0 <= 0 THEN DefaultSigma ELSE sigma0
        lib      == Append(historical, current)
        spikes   == DetectSpikes(lib, window, sigma)
        outliers == DetectOutliers(lib)
        mean     == calculateMean(historical)
        devPct   == IF mean.num # 0
                    THEN Frac(100 * (current * mean.den - mean.num), mean.num)
                    ELSE Frac(0, 1)
        ovr      == noHistoryOverride(Len(historical), current)
    IN [isAnomaly        |-> IF ovr THEN TRUE
                             ELSE spikes # {} \/ outliers # {},
        currentPower     |-> current,
        mean             |-> mean,
        deviationPercent |-> devPct,
        severity         |-> severityOf(current, historical),
        window           |-> window,
        sigma            |-> sigma,
        nSpikes          |-> Cardinality(spikes),
        nOutliers        |-> Cardinality(outliers)]

\* storeAlert: the alert put into the Alerts table
newAlert(rec, res) ==
    [severity     |-> res.severity,
     type         |-> "anomaly",
     power        |-> res.currentPower,
     acknowledged |-> FALSE]

\* the page size the analytics Handler hands to getReadingsForDate
PageLimit == 2000

\* goes on to store and notify whatever the result says
raisesAlertAlways(res) == TRUE

\* `if !an.IsAnomaly { continue }`: the Handler goes on to store and notify
\* only for an anomalous result
raisesAlert(res) == res.isAnomaly

DailyIdle ==
    /\ readingsTable = <<>>
    /\ lambdaResp = NoResult
    /\ apiResult = NoResult
    /\ httpStatus = 0
    /\ summaries = <<>>
    /\ reports = <<>>
    /\ pageLimit = PageLimit
    /\ dayFetch = NoResult

AnomalyInit ==
    /\ anRecord \in [eventName : EventNames, keysOk : BOOLEAN, powerKW : Powers]
    /\ anHistorical \in SeqsUpTo(Powers, MaxHist)
    /\ anWindow \in Windows
    /\ anSigma \in Sigmas
    /\ an = NoResult
    /\ alerts = <<>>
    /\ published = <<>>
    /\ anPc = "ready"
    /\ DailyIdle
    /\ ExtIdle

\* Handler, one stream record: the record is skipped (not INSERT/MODIFY, or
\* its key fields are missing)
HandlerSkip ==
    /\ anPc = "ready"
    /\ \/ anRecord.eventName \notin {"INSERT", "MODIFY"}
       \/ ~anRecord.keysOk
    /\ anPc' = "skipped"
    /\ UNCHANGED <<anRecord, anHistorical, anWindow, anSigma, an, alerts, published>>
    /\ UNCHANGED dailyVars
    /\ UNCHANGED extVars

\* Handler, one stream record: the historical query fails
HandlerHistoryError ==
    /\ anPc = "ready"
    /\ anRecord.eventName \in {"INSERT", "MODIFY"}
    /\ anRecord.keysOk
    /\ anPc' = "histError"
    /\ UNCHANGED <<anRecord, anHistorical, anWindow, anSigma, an, alerts, published>>
    /\ UNCHANGED dailyVars
    /\ UNCHANGED extVars

\* Handler, one stream record: the reading is evaluated; an anomaly is stored
\* (the put may fail) and then notified (the publish may fail)
HandlerEvaluate ==
    /\ anPc = "ready"
    /\ anRecord.eventName \in {"INSERT", "MODIFY"}
    /\ anRecord.keysOk
    /\ LET res == detectAnomaly(anRecord.powerKW, anHistorical, anWindow, anSigma)
       IN /\ an' = res
          /\ IF raisesAlert(res)
             THEN \E storeOk \in BOOLEAN, snsOk \in BOOLEAN :
                    /\ alerts' = IF storeOk THEN Append(alerts, newAlert(anRecord, res))
                                 ELSE alerts
                    /\ published' = IF snsOk THEN Append(published, res.severity)
                                    ELSE published
             ELSE UNCHANGED <<alerts, published>>
          /\ anPc' = IF raisesAlert(res) THEN "alerted" ELSE "evaluated"
    /\ UNCHANGED <<anRecord, anHistorical, anWindow, anSigma>>
    /\ UNCHANGED dailyVars
    /\ UNCHANGED extVars

AnomalyNext == HandlerSkip \/ HandlerHistoryError \/ HandlerEvaluate

SpecAnomaly == AnomalyInit /\ [][AnomalyNext]_vars

----------------------------------------------------------------------------
(* aggregator and converter (library energy-grid-analytics-go)              *)

\* aggregator.Sum over the point values
Sum(points) == SeqSum(points)

\* aggregator.Average: Sum/len
Average(points) == Frac(Sum(points), Len(points))

\* aggregator.MovingAverage: element i is the mean of the trailing `window`
\* values ending at i, over fewer values while the window is not yet full
MovingAverage(points, window) ==
    [i \in 1..Len(points) |->
        LET W == TrailingWindow(points, i, window)
        IN Frac(SeqSum(W), Len(W))]

\* converter.KWhToMWh: kwh / 1000
KWhToMWh(kwh) == Frac(kwh, 1000)

\* converter.CalculateCost(kwh, rate, tier) = kwh * rate, with kwh = total *
\* shareTenths / 10 and rate = rateHundredths / 100
CalculateCost(total, shareTenths, rateHundredths) ==
    Frac(total * shareTenths * rateHundredths, 1000)

\* converter.CalculateEfficiency(apparent, real): real/apparent when
\* apparent > 0, else 0
CalculateEfficiency(apparent, real) ==
    IF apparent.num > 0
    THEN Frac(real.num * apparent.den, real.den * apparent.num)
    ELSE Frac(0, 1)

----------------------------------------------------------------------------
(* analytics-processing Lambda: calculateDailyAnalytics and helpers *)

SecondsPerHour == 3600
SecondsPerDay == 86400
MovingAverageWindow == 12
MaxPages == 50
PeakShareTenths == 4
OffPeakShareTenths == 6
RateHundredths == 20

Timestamps == {0, 3600, 32400, 86400}
Dates == {0, 1}
DailyPowers == {-2, 0, 3}
VoltAmps == {<<2, 1>>, <<-1, 2>>}

round2(x) == RoundDiv(100 * x.num, x.den)
round3(x) == RoundDiv(1000 * x.num, x.den)
roundSlice(xs) == [i \in 1..Len(xs) |-> round2(xs[i])]

\* time.Unix(ts, 0).Format("15"): the two digits of the hour of the day
HourStr(ts) ==
    LET h == (ts \div SecondsPerHour) % 24
    IN <<h \div 10, h % 10>>

EmptyString == <<>>

\* Go's < on two-character strings
StrLess(a, b) == a[1] < b[1] \/ (a[1] = b[1] /\ a[2] < b[2])

\* safeAverage: 0 for no points
safeAverage(points) ==
    IF Len(points) = 0 THEN Frac(0, 1) ELSE Average(points)

RECURSIVE scanMaxMin(_, _, _)
scanMaxMin(ps, maxVal, minVal) ==
    IF ps = <<>> THEN [max |-> maxVal, min |-> minVal]
    ELSE scanMaxMin(Tail(ps),
                    IF Head(ps) > maxVal THEN Head(ps) ELSE maxVal,
                    IF Head(ps) < minVal THEN Head(ps) ELSE minVal)

\* seeds the extrema with 0 instead of the first element
findMaxMinZeroSeeded(points) ==
    IF Len(points) = 0 THEN [max |-> 0, min |-> 0]
    ELSE scanMaxMin(points, 0, 0)

\* findMaxMin: both extrema are seeded from the first element
findMaxMin(points) ==
    IF Len(points) = 0 THEN [max |-> 0, min |-> 0]
    ELSE scanMaxMin(Tail(points), points[1], points[1])

\* the zero value of HourlyData, read for an hour not yet in the map
ZeroHourlyData ==
    [count |-> 0, totalPower |-> 0, avgPower |-> Frac(0, 1), maxPower |-> 0]

EmptyHourly == [h \in {} |-> ZeroHourlyData]

\* assigns the count instead of incrementing it
bucketAddCountAssigned(data, r) ==
    [data EXCEPT !.count = 1,
                 !.totalPower = @ + r.powerKW,
                 !.maxPower = IF r.powerKW > @ THEN r.powerKW ELSE @]

\* first loop body of calculateHourlyData: one reading added to its bucket
bucketAdd(data, r) ==
    [data EXCEPT !.count = @ + 1,
                 !.totalPower = @ + r.powerKW,
                 !.maxPower = IF r.powerKW > @ THEN r.powerKW ELSE @]

\* integer division of the total by the count
bucketAverageTruncated(d) ==
    IF d.count > 0
    THEN [d EXCEPT !.avgPower = Frac(d.totalPower \div d.count, 1)]
    ELSE d

\* second loop body of calculateHourlyData: the bucket's average
bucketAverage(d) ==
    IF d.count > 0
    THEN [d EXCEPT !.avgPower = Frac(d.totalPower, d.count)]
    ELSE d

RECURSIVE hourlyFold(_, _)
hourlyFold(readings, hourly) ==
    IF readings = <<>> THEN hourly
    ELSE LET r    == Head(readings)
             h    == HourStr(r.timestamp)
             data == IF h \in DOMAIN hourly THEN hourly[h] ELSE ZeroHourlyData
         IN hourlyFold(Tail(readings),
                       [x \in DOMAIN hourly \cup {h} |->
                           IF x = h THEN bucketAdd(data, r) ELSE hourly[x]])

calculateHourlyData(readings) ==
    LET hourly == hourlyFold(readings, EmptyHourly)
    IN [h \in DOMAIN hourly |-> bucketAverage(hourly[h])]

\* ignores the hour when the maxima tie
peakLessNoTieBreak(a, b) == a.max > b.max

\* the less function handed to sort.Slice: max descending, hour ascending
peakLess(a, b) ==
    IF a.max = b.max THEN StrLess(a.hour, b.hour) ELSE a.max > b.max

Swap(arr, i, j) == [arr EXCEPT ![i] = arr[j], ![j] = arr[i]]

\* sort.Slice on at most 12 elements is an insertion sort
RECURSIVE sinkDown(_, _)
sinkDown(arr, j) ==
    IF j > 1 /\ peakLess(arr[j], arr[j - 1])
    THEN sinkDown(Swap(arr, j, j - 1), j - 1)
    ELSE arr

RECURSIVE insertionSort(_, _)
insertionSort(arr, i) ==
    IF i > Len(arr) THEN arr ELSE insertionSort(sinkDown(arr, i), i + 1)

\* the orders in which a range over the map may deliver its keys
IterationOrders(m) ==
    {o \in [1..Cardinality(DOMAIN m) -> DOMAIN m] :
        \A i, j \in DOMAIN o : i # j => o[i] # o[j]}

\* takes the first hour the map delivers, without sorting
derivePeakHourUnsorted(hourly, order) ==
    IF DOMAIN hourly = {} THEN EmptyString ELSE order[1]

\* derivePeakHour, with the map's iteration order made explicit
derivePeakHour(hourly, order) ==
    IF DOMAIN hourly = {} THEN EmptyString
    ELSE LET arr == [i \in 1..Len(order) |->
                        [hour |-> order[i], max |-> hourly[order[i]].maxPower]]
         IN insertionSort(arr, 2)[1].hour

averageFloat(xs) ==
    IF Len(xs) = 0 THEN Frac(0, 1) ELSE Frac(SeqSum(xs), Len(xs))

\* the square of stddevFloat: sum((x - mean)^2)/n = (n*Q - S^2)/n^2
varianceFloat(xs) ==
    IF Len(xs) = 0 THEN Frac(0, 1)
    ELSE Frac(Len(xs) * SeqSumSq(xs) - SeqSum(xs) * SeqSum(xs), Len(xs) * Len(xs))

\* max0: negative (and NaN/Inf) to 0
max0(x) == IF x.num < 0 THEN Frac(0, 1) ELSE x

\* apparent power = max0(avgV * avgI)
apparentPower(readings) ==
    LET avgV == averageFloat([i \in 1..Len(readings) |-> readings[i].voltage])
        avgI == averageFloat([i \in 1..Len(readings) |-> readings[i].current])
    IN max0(Frac(avgV.num * avgI.num, avgV.den * avgI.den))

\* calls the converter whatever the apparent power is
efficiencyGuardDropped(apparent) == TRUE

\* the condition under which the converter's efficiency division is called
efficiencyGuard(apparent) == apparent.num > 0

\* the apparent powers with which conv.CalculateEfficiency is invoked during
\* one run of calculateDailyAnalytics
efficiencyCalls(readings) ==
    IF efficiencyGuard(apparentPower(readings)) THEN <<apparentPower(readings)>>
    ELSE <<>>

\* the cost model of calculateDailyAnalytics for a total consumption of
\* `total` kWh (a fraction): the two shares, their sum, and the three values
\* as the record reports them, in hundredths of a currency unit
costModel(total) ==
    LET peakCost    == Frac(CalculateCost(total.num, PeakShareTenths, RateHundredths).num,
                            1000 * total.den)
        offPeakCost == Frac(CalculateCost(total.num, OffPeakShareTenths, RateHundredths).num,
                            1000 * total.den)
        totalCost   == Frac(peakCost.num + offPeakCost.num, 1000 * total.den)
    IN [estimatedCost |-> round2(totalCost),
        costBreakdown |-> [peak |-> round2(peakCost), offpeak |-> round2(offPeakCost)]]

calculateDailyAnalytics(readings, date, order) ==
    LET points      == [i \in 1..Len(readings) |-> readings[i].powerKW]
        volts       == [i \in 1..Len(readings) |-> readings[i].voltage]
        amps        == [i \in 1..Len(readings) |-> readings[i].current]
        totalPower  == Sum(points)
        avgPower    == safeAverage(points)
        movingAvg   == MovingAverage(points, MovingAverageWindow)
        cost        == costModel(Frac(totalPower, 1))
        mm          == findMaxMin(points)
        hourly      == calculateHourlyData(readings)
        avgV        == averageFloat(volts)
        avgI        == averageFloat(amps)
        apparent    == apparentPower(readings)
        powerFactor == IF efficiencyGuard(apparent)
                       THEN CalculateEfficiency(apparent, avgPower)
                       ELSE Frac(0, 1)
    IN [date                |-> date,
        readingCount        |-> Len(readings),
        totalConsumption    |-> round2(Frac(totalPower, 1)),
        totalConsumptionMWh |-> round3(KWhToMWh(totalPower)),
        averagePower        |-> round2(avgPower),
        peakPower           |-> round2(Frac(mm.max, 1)),
        minPower            |-> round2(Frac(mm.min, 1)),
        movingAverage       |-> roundSlice(movingAvg),
        estimatedCost       |-> cost.estimatedCost,
        costBreakdown       |-> cost.costBreakdown,
        avgVoltage          |-> round2(avgV),
        voltageVariance     |-> varianceFloat(volts),
        avgCurrent          |-> round2(avgI),
        powerFactor         |-> round3(powerFactor),
        peakHour            |-> derivePeakHour(hourly, order),
        hourlyData          |-> hourly]

----------------------------------------------------------------------------
(* analytics-processing Lambda: data access and Handler *)

\* the store's answer to the key condition
\*   facilityId = :fid AND timestamp BETWEEN :start AND :end
QueryRange(table, startTS, endTS) ==
    SelectSeq(table, LAMBDA r : startTS <= r.timestamp /\ r.timestamp <= endTS)

Min2(a, b) == IF a < b THEN a ELSE b

\* an event date that time.Parse("2006-01-02", date) rejects; the dates that
\* parse are day numbers, day d starting at d * 86400 s
BadDate == -1

dateParses(date) == date # BadDate

\* keeps the readings fetched before the failing query
queryFailedKeepsPartial(all, queries) ==
    [err |-> TRUE, readings |-> all, queries |-> queries, warned |-> FALSE]

\* `return nil, fmt.Errorf(...)` after a failed page query: the readings of
\* the earlier pages are dropped
queryFailed(all, queries) ==
    [err |-> TRUE, readings |-> <<>>, queries |-> queries, warned |-> FALSE]

\* the pagination loop of getReadingsForDate over the matching items:
\* `fetched` items are behind the exclusive start key, `pageCount` pages
\* were counted so far; query number failAt fails (0: none does).  The
\* store returns a continuation key exactly when matching items remain
\* behind the page.  Besides the returned (all, err) the result carries the
\* number of queries issued and whether the WARN line was logged.
RECURSIVE pageLoop(_, _, _, _, _)
pageLoop(matching, limit, failAt, fetched, pageCount) ==
    LET upto == Min2(fetched + limit, Len(matching))
        all  == SubSeq(matching, 1, upto)
    IN IF failAt = pageCount + 1
       THEN queryFailed(SubSeq(matching, 1, fetched), pageCount + 1)
       ELSE IF upto >= Len(matching)
       THEN [err |-> FALSE, readings |-> all,
             queries |-> pageCount + 1, warned |-> FALSE]
       ELSE IF pageCount + 1 > MaxPages
       THEN [err |-> FALSE, readings |-> all,
             queries |-> pageCount + 1, warned |-> TRUE]
       ELSE pageLoop(matching, limit, failAt, upto, pageCount + 1)

\* getReadingsForDate for the event date `date` with page size `limit`
getReadingsForDate(table, date, limit, failAt) ==
    LET startTS == date * SecondsPerDay
        endTS   == startTS + SecondsPerDay
    IN IF ~dateParses(date)
       THEN [err |-> TRUE, readings |-> <<>>, queries |-> 0, warned |-> FALSE]
       ELSE pageLoop(QueryRange(table, startTS, endTS), limit, failAt, 0, 0)

\* generateReport is reached only when the summary was stored
reportAttemptedOnlyIfStored(storeOk) == storeOk

\* the error of storeAnalyticsSummary is logged and the Handler goes on to
\* generateReport
reportAttempted(storeOk) == TRUE

\* the store and upload calls the Handler makes for a non-empty day, in order
handlerEffects(storeOk) ==
    <<"storeAnalyticsSummary">>
    \o (IF reportAttempted(storeOk) THEN <<"generateReport">> ELSE <<>>)

\* Handler of the analytics Lambda, with the page size it hands to
\* getReadingsForDate as a parameter.  env: failAt is the store query that
\* fails (0: none), storeOk and reportOk are the outcomes of
\* storeAnalyticsSummary and of generateReport; order is the map iteration
\* order met by derivePeakHour.
HandlerWith(table, date, limit, env) ==
    LET got == getReadingsForDate(table, date, limit, env.failAt)
    IN IF got.err
       THEN [statusCode |-> 500, funcError |-> TRUE, message |-> "error",
             date |-> date, readings |-> <<>>,
             hasAnalytics |-> FALSE, analytics |-> NoResult,
             hasReportURL |-> FALSE, reportURL |-> "",
             stored |-> FALSE, uploaded |-> FALSE, effects |-> <<>>]
       ELSE IF Len(got.readings) = 0
       THEN [statusCode |-> 200, funcError |-> FALSE, message |-> "No data to process",
             date |-> date, readings |-> <<>>,
             hasAnalytics |-> FALSE, analytics |-> NoResult,
             hasReportURL |-> FALSE, reportURL |-> "",
             stored |-> FALSE, uploaded |-> FALSE, effects |-> <<>>]
       ELSE [statusCode |-> 200, funcError |-> FALSE,
             message |-> "Analytics processed successfully",
             date |-> date, readings |-> got.readings,
             hasAnalytics |-> TRUE,
             analytics |-> calculateDailyAnalytics(got.readings, date, env.order),
             hasReportURL |-> TRUE,
             reportURL |-> IF reportAttempted(env.storeOk) /\ env.reportOk
                           THEN "https://bucket/report" ELSE "",
             stored |-> env.storeOk,
             uploaded |-> reportAttempted(env.storeOk) /\ env.reportOk,
             effects |-> handlerEffects(env.storeOk)]

\* Handler: the page size is 2000
Handler(table, date, env) == HandlerWith(table, date, PageLimit, env)

\* LambdaClient.InvokeAnalyticsProcessing followed by the body of
\* AnalyticsService.GenerateDailyReport: (reportURL, err)
GenerateDailyReport(cloud, invokeOk, resp) ==
    IF ~cloud THEN [url |-> "", err |-> "cloud services not enabled"]
    ELSE IF ~invokeOk \/ resp.funcError
    THEN [url |-> "", err |-> "failed to invoke analytics Lambda"]
    ELSE IF resp.hasReportURL THEN [url |-> resp.reportURL, err |-> ""]
    ELSE [url |-> "", err |-> "no report URL in response"]

\* the status answered by POST analytics/generate for a parsed request
GenerateStatus(res) == IF res.err # "" THEN 500 ELSE 200

\* the orders derivePeakHour may meet for the readings the query selects,
\* one order for each peak hour that some order leads to: the order enters
\* the analytics through derivePeakHour only
OrdersFor(table, date, limit) ==
    LET hourly == calculateHourlyData(getReadingsForDate(table, date, limit, 0).readings)
        orders == IterationOrders(hourly)
    IN {o \in orders :
          o = CHOOSE o2 \in orders :
                derivePeakHour(hourly, o2) = derivePeakHour(hourly, o)}

\* the last request was aggregated into a DailyAnalytics record
Processed == lambdaResp # NoResult /\ lambdaResp.hasAnalytics

\* the anomaly Lambda has no record to evaluate
AnomalyIdle ==
    /\ anRecord = [eventName |-> "REMOVE", keysOk |-> FALSE, powerKW |-> 0]
    /\ anHistorical = <<>>
    /\ anWindow = 0
    /\ anSigma = 0
    /\ an = NoResult
    /\ alerts = <<>>
    /\ published = <<>>
    /\ anPc = "skipped"

Readings ==
    {[timestamp |-> t, powerKW |-> p, voltage |-> va[1], current |-> va[2]] :
        t \in Timestamps, p \in DailyPowers, va \in VoltAmps}

DailyInit ==
    /\ readingsTable = <<>>
    /\ lambdaResp = NoResult
    /\ apiResult = NoResult
    /\ httpStatus = 0
    /\ summaries = <<>>
    /\ reports = <<>>
    /\ pageLimit = PageLimit
    /\ dayFetch = NoResult
    /\ AnomalyIdle
    /\ ExtIdle

\* DynamoDBClient.PutReading: a reading of the facility is stored under its
\* (later) timestamp, before the day's report is requested
PutReading ==
    /\ lambdaResp = NoResult /\ httpStatus = 0
    /\ Len(readingsTable) < MaxReadings
    /\ \E r \in Readings :
        /\ \A i \in 1..Len(readingsTable) : readingsTable[i].timestamp < r.timestamp
        /\ readingsTable' = Append(readingsTable, r)
    /\ UNCHANGED <<lambdaResp, apiResult, httpStatus, summaries, reports,
                   pageLimit, dayFetch>>
    /\ UNCHANGED <<anVars, extVars>>

\* POST analytics/generate with an unparsable body: 400, nothing invoked
PostGenerateBadRequest ==
    /\ httpStatus = 0
    /\ httpStatus' = 400
    /\ UNCHANGED <<readingsTable, lambdaResp, apiResult, summaries, reports,
                   pageLimit, dayFetch>>
    /\ UNCHANGED <<anVars, extVars>>

\* POST analytics/generate -> GenerateDailyReport, the Lambda is not reached
\* (cloud services disabled, or the invocation itself fails)
PostGenerateNotInvoked ==
    /\ httpStatus = 0
    /\ \E cloud \in BOOLEAN :
        LET res == GenerateDailyReport(cloud, FALSE, NoResult)
        IN /\ apiResult' = res
           /\ httpStatus' = GenerateStatus(res)
    /\ UNCHANGED <<readingsTable, lambdaResp, summaries, reports,
                   pageLimit, dayFetch>>
    /\ UNCHANGED <<anVars, extVars>>

\* POST analytics/generate -> GenerateDailyReport -> Lambda Handler, whole
PostGenerate ==
    /\ httpStatus = 0
    /\ \E date \in Dates, failAt \in {0, 1}, storeOk \in BOOLEAN, reportOk \in BOOLEAN :
       \E order \in OrdersFor(readingsTable, date, PageLimit) :
        LET env  == [failAt |-> failAt, storeOk |-> storeOk,
                     reportOk |-> reportOk, order |-> order]
            resp == Handler(readingsTable, date, env)
            res  == GenerateDailyReport(TRUE, TRUE, resp)
        IN /\ dayFetch' = getReadingsForDate(readingsTable, date, PageLimit, failAt)
           /\ lambdaResp' = resp
           /\ summaries' = IF resp.stored THEN Append(summaries, resp.analytics)
                           ELSE summaries
           /\ reports' = IF resp.uploaded THEN Append(reports, resp.analytics)
                         ELSE reports
           /\ apiResult' = res
           /\ httpStatus' = GenerateStatus(res)
    /\ UNCHANGED <<readingsTable, pageLimit>>
    /\ UNCHANGED <<anVars, extVars>>

\* the analytics Lambda is invoked once more for the day it has aggregated
\* (Handler, whole), in a run whose query, summary put and report upload
\* succeed; the map may now be iterated in another order
Reaggregate ==
    /\ Processed
    /\ Len(summaries) < MaxRuns /\ Len(reports) < MaxRuns
    /\ \E order \in OrdersFor(readingsTable, lambdaResp.date, PageLimit) :
        LET env  == [failAt |-> 0, storeOk |-> TRUE,
                     reportOk |-> TRUE, order |-> order]
            resp == Handler(readingsTable, lambdaResp.date, env)
        IN /\ dayFetch' = getReadingsForDate(readingsTable, lambdaResp.date, PageLimit, 0)
           /\ lambdaResp' = resp
           /\ summaries' = IF resp.stored THEN Append(summaries, resp.analytics)
                           ELSE summaries
           /\ reports' = IF resp.uploaded THEN Append(reports, resp.analytics)
                         ELSE reports
    /\ UNCHANGED <<readingsTable, apiResult, httpStatus, pageLimit>>
    /\ UNCHANGED <<anVars, extVars>>

DailyNext ==
    \/ PutReading
    \/ PostGenerateBadRequest
    \/ PostGenerateNotInvoked
    \/ PostGenerate
    \/ Reaggregate

SpecDaily == DailyInit /\ [][DailyNext]_vars

----------------------------------------------------------------------------
(* analytics-processing Lambda: getReadingsForDate over several pages *)

PageLimits == {1, 2}

\* a day-0 table of n readings, one per second from 00:00:01
PagedTable(n) ==
    [i \in 1..n |-> [timestamp |-> i, powerKW |-> 3, voltage |-> 2, current |-> 1]]

PagesInit ==
    /\ readingsTable \in {PagedTable(n) : n \in 0..MaxItems}
    /\ pageLimit \in PageLimits
    /\ lambdaResp = NoResult
    /\ dayFetch = NoResult
    /\ apiResult = NoResult
    /\ httpStatus = 0
    /\ summaries = <<>>
    /\ reports = <<>>
    /\ AnomalyIdle
    /\ ExtIdle

\* the analytics Lambda is invoked for an event date (Handler, whole) and
\* reads the day with the page size pageLimit; query number failAt fails
InvokeAnalytics ==
    /\ lambdaResp = NoResult
    /\ \E date \in {0, BadDate}, failAt \in 0..2, storeOk \in BOOLEAN, reportOk \in BOOLEAN :
       \E order \in OrdersFor(readingsTable, date, pageLimit) :
        LET env  == [failAt |-> failAt, storeOk |-> storeOk,
                     reportOk |-> reportOk, order |-> order]
            resp == HandlerWith(readingsTable, date, pageLimit, env)
        IN /\ dayFetch' = getReadingsForDate(readingsTable, date, pageLimit, failAt)
           /\ lambdaResp' = resp
           /\ summaries' = IF resp.stored THEN Append(summaries, resp.analytics)
                           ELSE summaries
           /\ reports' = IF resp.uploaded THEN Append(reports, resp.analytics)
                         ELSE reports
    /\ UNCHANGED <<readingsTable, pageLimit, apiResult, httpStatus>>
    /\ UNCHANGED <<anVars, extVars>>

PagesNext == InvokeAnalytics

SpecPages == PagesInit /\ [][PagesNext]_vars

----------------------------------------------------------------------------
(* analytics-processing Lambda: generateRecommendations *)

\* the values of the fields the rules read: AveragePower in hundredths of a
\* kW, PowerFactor and VoltageStdDev in thousandths, PeakHour as HourStr
AvgPowers == {0, 5000, 5001, 6000}
PowerFactors == {-500, 0, 1, 849, 850, 1000, 1500}
StdDevs == {0, 10000, 10001}
PeakHours == {EmptyString, <<0, 0>>, <<0, 8>>, <<0, 9>>, <<1, 7>>, <<1, 8>>, <<2, 3>>}

\* strconv.Atoi on a two-digit hour string
Atoi(str) == 10 * str[1] + str[2]

\* tests only the upper end of the power-factor band
lowPowerFactorNoZeroGuard(pf) == pf < 850

\* a.PowerFactor < 0.85 && a.PowerFactor > 0
lowPowerFactor(pf) == pf < 850 /\ pf > 0

Rec(priority, category) == [priority |-> priority, category |-> category]

\* generateRecommendations: four ifs, each appending at most one entry
generateRecommendations(a) ==
    (IF a.averagePower > 5000 THEN <<Rec("high", "consumption")>> ELSE <<>>)
    \o (IF lowPowerFactor(a.powerFactor) THEN <<Rec("medium", "efficiency")>> ELSE <<>>)
    \o (IF a.voltageStdDev > 10000 THEN <<Rec("high", "quality")>> ELSE <<>>)
    \o (IF a.peakHour # EmptyString /\ Atoi(a.peakHour) >= 9 /\ Atoi(a.peakHour) <= 17
        THEN <<Rec("low", "optimization")>> ELSE <<>>)

RecsInit ==
    /\ recInput \in [averagePower : AvgPowers, powerFactor : PowerFactors,
                      voltageStdDev : StdDevs, peakHour : PeakHours]
    /\ recs = NoResult
    /\ AnomalyIdle
    /\ DailyIdle
    /\ HistIdle
    /\ MqIdle
    /\ MoreIdle

\* generateReport asks for the recommendations of the day's record
Recommend ==
    /\ recs = NoResult
    /\ recs' = [list |-> generateRecommendations(recInput)]
    /\ UNCHANGED <<recInput, histVars, mqVars, anVars, dailyVars, moreVars>>

RecsNext == Recommend

SpecRecs == RecsInit /\ [][RecsNext]_vars

----------------------------------------------------------------------------
(* anomaly-detection Lambda: getHistoricalReadings *)

Meters == {"m1", "m2"}
HistLimits == {1, 2, 3}

\* time.Now().Unix() at the call: the stored readings are not later
HistNow == MaxRows

\* the rows of the table that holds, at timestamp t, a reading of meter
\* f[t] (none when f[t] = "")
RECURSIVE rowsFrom(_, _)
rowsFrom(f, t) ==
    IF t > MaxRows THEN <<>>
    ELSE (IF f[t] = "" THEN <<>> ELSE <<[timestamp |-> t, meterId |-> f[t]]>>)
         \o rowsFrom(f, t + 1)

HistTables == {rowsFrom(f, 1) : f \in [1..MaxRows -> Meters \cup {""}]}

\* the store's answer to the query: the items of the key range, newest
\* first (ScanIndexForward false), cut at Limit
QueryPage(table, start, end, limit) ==
    LET matching == QueryRange(table, start, end)
        n        == Len(matching)
        desc     == [i \in 1..n |-> matching[n + 1 - i]]
    IN SubSeq(desc, 1, Min2(limit, n))

\* the meter filter: `filtered := all[:0]` shares the array of `all`; entry
\* i is read and, when it matches, written to position w + 1
RECURSIVE filterInPlace(_, _, _, _)
filterInPlace(arr, i, w, meterID) ==
    IF i > Len(arr) THEN SubSeq(arr, 1, w)
    ELSE IF arr[i].meterId = meterID
    THEN filterInPlace([arr EXCEPT ![w + 1] = arr[i]], i + 1, w + 1, meterID)
    ELSE filterInPlace(arr, i + 1, w, meterID)

RECURSIVE reverseLoop(_, _, _)
reverseLoop(a, i, j) ==
    IF i < j THEN reverseLoop(Swap(a, i, j), i + 1, j - 1) ELSE a

\* leaves the slice in the store's order
reverseInPlaceSkipped(a) == a

reverseInPlace(a) == reverseLoop(a, 1, Len(a))

getHistoricalReadings(table, meterID, start, limit, queryOk) ==
    IF ~queryOk THEN [err |-> TRUE, readings |-> <<>>]
    ELSE LET all      == QueryPage(table, start, HistNow, limit)
             filtered == IF meterID # "" THEN filterInPlace(all, 1, 0, meterID)
                         ELSE all
         IN [err |-> FALSE, readings |-> reverseInPlace(filtered)]

HistoryInit ==
    /\ histTable \in HistTables
    /\ histMeter \in Meters \cup {""}
    /\ histLimit \in HistLimits
    /\ histStart \in {1, 2}
    /\ histOut = NoResult
    /\ AnomalyIdle
    /\ DailyIdle
    /\ RecIdle
    /\ MqIdle
    /\ MoreIdle

\* getHistoricalReadings, whole, the query succeeding
GetHistorical ==
    /\ histOut = NoResult
    /\ histOut' = getHistoricalReadings(histTable, histMeter, histStart, histLimit, TRUE)
    /\ UNCHANGED <<histTable, histMeter, histLimit, histStart>>
    /\ UNCHANGED <<recVars, mqVars, anVars, dailyVars, moreVars>>

\* getHistoricalReadings, whole, the query failing
GetHistoricalQueryFails ==
    /\ histOut = NoResult
    /\ histOut' = getHistoricalReadings(histTable, histMeter, histStart, histLimit, FALSE)
    /\ UNCHANGED <<histTable, histMeter, histLimit, histStart>>
    /\ UNCHANGED <<recVars, mqVars, anVars, dailyVars, moreVars>>

HistoryNext == GetHistorical \/ GetHistoricalQueryFails

SpecHistory == HistoryInit /\ [][HistoryNext]_vars

----------------------------------------------------------------------------
(* ReadingService.FromMQTT *)

\* MQTT payloads: one that json.Unmarshal rejects, and readings
MqPayloads ==
    {[valid |-> FALSE, powerKW |-> 0]} \cup {[valid |-> TRUE, powerKW |-> p] : p \in {0, 3}}

\* the wirings of the service: local mode, cloud mode with and without a
\* Lambda client
MqConfigs ==
    {[useCloud |-> FALSE, hasLambda |-> FALSE],
     [useCloud |-> TRUE, hasLambda |-> FALSE],
     [useCloud |-> TRUE, hasLambda |-> TRUE]}

\* starts the detection whether or not the reading was persisted
detectionStartedBeforePut(cfg, persistOk) == cfg.hasLambda

\* cloud mode: the goroutine is started past the error return of PutReading,
\* when a Lambda client is present
detectionStarted(cfg, persistOk) == persistOk /\ cfg.hasLambda

\* what one call of FromMQTT does: the error it returns, the backend it
\* persisted the reading to ("" for none) and whether it started the
\* anomaly-detection goroutine
fromMQTT(cfg, payload, persistOk) ==
    IF ~payload.valid
    THEN [err |-> "unmarshal", backend |-> "", spawned |-> FALSE]
    ELSE IF cfg.useCloud
    THEN [err     |-> IF persistOk THEN "" ELSE "put reading",
          backend |-> IF persistOk THEN "dynamodb" ELSE "",
          spawned |-> detectionStarted(cfg, persistOk)]
    ELSE [err     |-> IF persistOk THEN "" ELSE "insert reading",
          backend |-> IF persistOk THEN "sql" ELSE "",
          spawned |-> FALSE]

IngestInit ==
    /\ mqConfig \in MqConfigs
    /\ mqCalls = <<>>
    /\ mqStore = <<>>
    /\ mqInvocations = <<>>
    /\ AnomalyIdle
    /\ DailyIdle
    /\ RecIdle
    /\ HistIdle
    /\ MoreIdle

\* FromMQTT, whole: parse, persist, start the goroutine, return
FromMQTT ==
    /\ Len(mqCalls) < MaxMsgs
    /\ \E payload \in MqPayloads, persistOk \in BOOLEAN :
        LET k   == Len(mqCalls) + 1
            out == fromMQTT(mqConfig, payload, persistOk)
        IN /\ mqCalls' = Append(mqCalls, [payload |-> payload, persistOk |-> persistOk,
                                          err |-> out.err])
           /\ mqStore' = IF out.backend # ""
                         THEN Append(mqStore, [call |-> k, powerKW |-> payload.powerKW,
                                               backend |-> out.backend])
                         ELSE mqStore
           /\ mqInvocations' = IF out.spawned
                               THEN Append(mqInvocations, [call |-> k, status |-> "running"])
                               ELSE mqInvocations
    /\ UNCHANGED mqConfig
    /\ UNCHANGED <<recVars, histVars, anVars, dailyVars, moreVars>>

\* the goroutine: InvokeAnomalyDetection returns without error
InvocationSucceeds ==
    /\ \E i \in DOMAIN mqInvocations :
        /\ mqInvocations[i].status = "running"
        /\ mqInvocations' = [mqInvocations EXCEPT ![i].status = "ok"]
    /\ UNCHANGED <<mqConfig, mqCalls, mqStore>>
    /\ UNCHANGED <<recVars, histVars, anVars, dailyVars, moreVars>>

\* the goroutine: InvokeAnomalyDetection returns an error, which is logged
InvocationFails ==
    /\ \E i \in DOMAIN mqInvocations :
        /\ mqInvocations[i].status = "running"
        /\ mqInvocations' = [mqInvocations EXCEPT ![i].status = "failed"]
    /\ UNCHANGED <<mqConfig, mqCalls, mqStore>>
    /\ UNCHANGED <<recVars, histVars, anVars, dailyVars, moreVars>>

IngestNext == FromMQTT \/ InvocationSucceeds \/ InvocationFails

SpecIngest == IngestInit /\ [][IngestNext]_vars

----------------------------------------------------------------------------
(* the components above, as seen from the specifications below *)

baseVars == <<anVars, dailyVars, recVars, histVars, mqVars>>

BaseIdle == AnomalyIdle /\ DailyIdle /\ RecIdle /\ HistIdle /\ MqIdle

----------------------------------------------------------------------------
(* analytics-processing Lambda: the cost model over fractional totals *)

\* total consumptions range over the hundredths of a kWh up to this many
MaxCentiKWh == 30

CostTotals == {Frac(n, 100) : n \in (0 - MaxCentiKWh)..MaxCentiKWh}

CostInit ==
    /\ costTotal \in CostTotals
    /\ costOut = NoResult
    /\ BaseIdle
    /\ BatchIdle
    /\ AlertsIdle
    /\ WsIdle

\* calculateDailyAnalytics computes and rounds the costs of the day's total
EstimateCost ==
    /\ costOut = NoResult
    /\ costOut' = costModel(costTotal)
    /\ UNCHANGED costTotal
    /\ UNCHANGED <<baseVars, btVars, alVars, wsVars>>

CostNext == EstimateCost

SpecCost == CostInit /\ [][CostNext]_vars

----------------------------------------------------------------------------
(* anomaly-detection Lambda: Handler over the records of one event *)

\* the most stream records in one event
MaxBatch == 3

\* a stream record together with the outcomes its calls will have: parseOk
\* (parseReading), keysOk (the key fields are set), histOk (the historical
\* query), storeOk (the alert put), snsOk (the publish)
BatchRecord(eventName, parseOk, keysOk, histOk, powerKW, historical, storeOk, snsOk) ==
    [eventName |-> eventName, parseOk |-> parseOk, keysOk |-> keysOk,
     histOk |-> histOk, powerKW |-> powerKW, historical |-> historical,
     storeOk |-> storeOk, snsOk |-> snsOk]

BatchRecords ==
    {BatchRecord("REMOVE", TRUE, TRUE, TRUE, 2, <<2, 2, 2>>, TRUE, TRUE),
     BatchRecord("INSERT", FALSE, TRUE, TRUE, 2, <<2, 2, 2>>, TRUE, TRUE),
     BatchRecord("MODIFY", TRUE, FALSE, TRUE, 2, <<2, 2, 2>>, TRUE, TRUE),
     BatchRecord("INSERT", TRUE, TRUE, FALSE, 4, <<>>, TRUE, TRUE),
     BatchRecord("INSERT", TRUE, TRUE, TRUE, 2, <<2, 2, 2>>, TRUE, TRUE)}
    \cup {BatchRecord("INSERT", TRUE, TRUE, TRUE, 4, <<>>, storeOk, snsOk) :
             storeOk \in BOOLEAN, snsOk \in BOOLEAN}

\* what the loop body did for a record
RecordLog(outcome, failed, evaluated, storeAttempted, stored, notifyAttempted, notified) ==
    [outcome |-> outcome, failed |-> failed, evaluated |-> evaluated,
     storeAttempted |-> storeAttempted, stored |-> stored,
     notifyAttempted |-> notifyAttempted, notified |-> notified]

\* the body of the Handler's loop for one record
handleRecord(rec) ==
    IF rec.eventName \notin {"INSERT", "MODIFY"}
    THEN RecordLog("skipped", FALSE, FALSE, FALSE, FALSE, FALSE, FALSE)
    ELSE IF ~rec.parseOk
    THEN RecordLog("parseError", TRUE, FALSE, FALSE, FALSE, FALSE, FALSE)
    ELSE IF ~rec.keysOk
    THEN RecordLog("missingKeys", TRUE, FALSE, FALSE, FALSE, FALSE, FALSE)
    ELSE IF ~rec.histOk
    THEN RecordLog("histError", TRUE, FALSE, FALSE, FALSE, FALSE, FALSE)
    ELSE LET res == detectAnomaly(rec.powerKW, rec.historical,
                                  DefaultWindow, DefaultSigma)
         IN IF ~raisesAlert(res)
            THEN RecordLog("normal", FALSE, TRUE, FALSE, FALSE, FALSE, FALSE)
            ELSE RecordLog("anomaly", ~rec.storeOk \/ ~rec.snsOk, TRUE,
                           TRUE, rec.storeOk, TRUE, rec.snsOk)

\* the loop ends at the first record on which a call failed
continuesOnlyAfterSuccess(log) == ~log.failed

\* every path through the loop body ends in `continue` or falls through to
\* the next iteration
loopContinues(log) == TRUE

RECURSIVE handleRecords(_, _, _)
handleRecords(batch, i, logs) ==
    IF i > Len(batch) THEN logs
    ELSE LET log == handleRecord(batch[i])
         IN IF loopContinues(log)
            THEN handleRecords(batch, i + 1, Append(logs, log))
            ELSE Append(logs, log)

\* Handler for a whole event: the error it returns and what it did
BatchHandler(batch) == [err |-> "nil", logs |-> handleRecords(batch, 1, <<>>)]

BatchInit ==
    /\ btBatch \in SeqsUpTo(BatchRecords, MaxBatch)
    /\ btOut = NoResult
    /\ BaseIdle
    /\ CostIdle
    /\ AlertsIdle
    /\ WsIdle

\* the Lambda is invoked with the event
HandleBatch ==
    /\ btOut = NoResult
    /\ btOut' = BatchHandler(btBatch)
    /\ UNCHANGED btBatch
    /\ UNCHANGED <<baseVars, costVars, alVars, wsVars>>

BatchNext == HandleBatch

SpecBatch == BatchInit /\ [][BatchNext]_vars

----------------------------------------------------------------------------
(* AlertService.CreateAlert over DynamoDBClient.CreateAlert and SNS *)

\* the most CreateAlert calls in a behaviour
MaxCalls == 2
\* the clock runs up to this many ticks
MaxClock == 8
\* between two readings of the clock at most this many ticks pass
MaxStep == 3
\* ticks in a second (10^9 nanoseconds, scaled down)
NanosPerSecond == 4

ClockSteps == 1..MaxStep

\* fmt.Sprintf("alert-%d-%d", time.Now().Unix(), time.Now().Nanosecond()):
\* the seconds of a first reading of the clock, the nanoseconds within the
\* second of a second reading
alertId(t1, t2) == <<t1 \div NanosPerSecond, t2 % NanosPerSecond>>

\* PutItem into the Alerts table, whose key is alertId: an item with the
\* same key is replaced
PutItem(table, item) == {a \in table : a.alertId # item.alertId} \cup {item}

\* DynamoDBClient.CreateAlert; the clock is read at t1 and then at t2
dynamoCreateAlert(table, tag, t1, t2, putOk) ==
    IF ~putOk THEN [err |-> TRUE, table |-> table]
    ELSE [err |-> FALSE,
          table |-> PutItem(table, [alertId |-> alertId(t1, t2), message |-> tag,
                                    acknowledged |-> FALSE])]

\* the notification is published whatever the put returned
publishesRegardless(persistErr) == TRUE

\* the SNS block is reached only past the early return on the put's error
publishes(persistErr) == ~persistErr

ServiceState(table, sent, clock) ==
    [table |-> table, published |-> sent, clock |-> clock]

\* AlertService.CreateAlert on the service state st; tag stands for the
\* alert's message; env: the outcomes of the put and of the publish, and the
\* ticks that pass before each reading of the clock
createAlert(cfg, st, tag, env) ==
    IF cfg.useCloud
    THEN LET t1   == st.clock + env.d1
             t2   == t1 + env.d2
             put  == dynamoCreateAlert(st.table, tag, t1, t2, env.putOk)
             send == cfg.hasSNS /\ publishes(put.err)
         IN [err |-> IF put.err THEN "failed to create alert in DynamoDB" ELSE "nil",
             cloud |-> TRUE,
             id |-> alertId(t1, t2),
             persisted |-> ~put.err,
             publishAttempted |-> send,
             published |-> send /\ env.snsOk,
             st |-> ServiceState(put.table,
                        IF send /\ env.snsOk
                        THEN Append(st.published, [via |-> "SendAlert", tag |-> tag])
                        ELSE st.published,
                        t2)]
    ELSE [err |-> "local alert storage not implemented",
          cloud |-> FALSE,
          id |-> <<>>,
          persisted |-> FALSE,
          publishAttempted |-> FALSE,
          published |-> FALSE,
          st |-> st]

CreateEnvs == [putOk : BOOLEAN, snsOk : BOOLEAN, d1 : ClockSteps, d2 : ClockSteps]

AlertsInit ==
    /\ alConfig \in [useCloud : BOOLEAN, hasSNS : BOOLEAN]
    /\ alStore = {}
    /\ alPublished = <<>>
    /\ alCalls = <<>>
    /\ alClock = 0
    /\ BaseIdle
    /\ CostIdle
    /\ BatchIdle
    /\ WsIdle

\* AlertService.CreateAlert, whole
CreateAlert ==
    /\ Len(alCalls) < MaxCalls
    /\ \E env \in CreateEnvs :
        LET r == createAlert(alConfig, ServiceState(alStore, alPublished, alClock),
                             Len(alCalls) + 1, env)
        IN /\ r.st.clock <= MaxClock
           /\ alStore' = r.st.table
           /\ alPublished' = r.st.published
           /\ alClock' = r.st.clock
           /\ alCalls' = Append(alCalls, [err |-> r.err, cloud |-> r.cloud, id |-> r.id,
                                          persisted |-> r.persisted,
                                          publishAttempted |-> r.publishAttempted,
                                          published |-> r.published])
    /\ UNCHANGED alConfig
    /\ UNCHANGED <<baseVars, costVars, btVars, wsVars>>

AlertsNext == CreateAlert

SpecAlerts == AlertsInit /\ [][AlertsNext]_vars

----------------------------------------------------------------------------
(* AlertService.DetectAnomalies *)

\* the most readings handed to DetectAnomalies
MaxAlertReadings == 3

AlertPowers == {0, 1, 4}

\* r.PowerKW > threshold, with threshold = avg * 1.5 and avg = sum / n, n > 0
exceedsThreshold(p, readings) == 2 * p * Len(readings) > 3 * SeqSum(readings)

\* the outcomes of the calls made for one reading: the put and the publish
\* of CreateAlert, the publish of SendAnomalyAlert
DetectEnvs == [putOk : BOOLEAN, snsOk : BOOLEAN, anomalyOk : BOOLEAN]

\* SNSClient.SendAnomalyAlert: formats the message, reading the clock, and
\* publishes it with SendAlert; DetectAnomalies drops its error
sendAnomalyAlert(st, tag, ok) ==
    ServiceState(st.table,
                 IF ok THEN Append(st.published, [via |-> "SendAnomalyAlert", tag |-> tag])
                 ELSE st.published,
                 st.clock + 1)

\* the loop of DetectAnomalies over the readings, from reading i on
RECURSIVE detectLoop(_, _, _, _, _)
detectLoop(cfg, readings, i, st, envs) ==
    IF i > Len(readings) THEN [err |-> "nil", st |-> st]
    ELSE IF ~exceedsThreshold(readings[i], readings)
    THEN detectLoop(cfg, readings, i + 1, st, envs)
    ELSE LET r == createAlert(cfg, st, i,
                              [putOk |-> envs[i].putOk, snsOk |-> envs[i].snsOk,
                               d1 |-> 1, d2 |-> 1])
         IN IF r.err # "nil"
            THEN [err |-> "failed to create anomaly alert", st |-> r.st]
            ELSE detectLoop(cfg, readings, i + 1,
                            IF cfg.useCloud /\ cfg.hasSNS
                            THEN sendAnomalyAlert(r.st, i, envs[i].anomalyOk)
                            ELSE r.st,
                            envs)

\* AlertService.DetectAnomalies
detectAnomalies(cfg, st, readings, envs) ==
    IF Len(readings) = 0 THEN [err |-> "nil", st |-> st]
    ELSE detectLoop(cfg, readings, 1, st, envs)

DetectInit == AlertsInit

\* AlertService.DetectAnomalies, whole, on a service that has no alerts
DetectAnomalies ==
    /\ alCalls = <<>>
    /\ \E readings \in SeqsUpTo(AlertPowers, MaxAlertReadings) :
       \E envs \in [1..Len(readings) -> DetectEnvs] :
        LET r == detectAnomalies(alConfig, ServiceState(alStore, alPublished, alClock),
                                 readings, envs)
        IN /\ alStore' = r.st.table
           /\ alPublished' = r.st.published
           /\ alClock' = r.st.clock
           /\ alCalls' = <<[err |-> r.err, readings |-> readings]>>
    /\ UNCHANGED alConfig
    /\ UNCHANGED <<baseVars, costVars, btVars, wsVars>>

DetectNext == DetectAnomalies

SpecDetect == DetectInit /\ [][DetectNext]_vars

----------------------------------------------------------------------------
(* dashboard server: handleWebSocket, handleBroadcast, periodicUpdate *)

\* the most messages waiting in Server.broadcast
MaxQueue == 1

\* clientsMu can be taken for writing: handleBroadcast is the only reader,
\* and it holds the read lock from the start of its range to its end
WriteLockFree == bcPc = "idle"

DashboardInit ==
    /\ WsIdle
    /\ BaseIdle
    /\ CostIdle
    /\ BatchIdle
    /\ AlertsIdle

\* handleWebSocket: upgrader.Upgrade fails and the handler returns
UpgradeFails(c) ==
    /\ wsPc[c] = "idle"
    /\ wsPc' = [wsPc EXCEPT ![c] = "closed"]
    /\ UNCHANGED <<wsClients, bcPc, bcTodo, bcConn, bcQueue>>
    /\ UNCHANGED <<baseVars, costVars, btVars, alVars>>

\* handleWebSocket: the connection is upgraded and, under the write lock,
\* entered into clients
Register(c) ==
    /\ wsPc[c] = "idle"
    /\ WriteLockFree
    /\ wsPc' = [wsPc EXCEPT ![c] = "registered"]
    /\ wsClients' = wsClients \cup {c}
    /\ UNCHANGED <<bcPc, bcTodo, bcConn, bcQueue>>
    /\ UNCHANGED <<baseVars, costVars, btVars, alVars>>

\* handleWebSocket: getStats has returned and conn.WriteJSON of the "init"
\* message begins; no lock is held
BeginInit(c) ==
    /\ wsPc[c] = "registered"
    /\ wsPc' = [wsPc EXCEPT ![c] = "writingInit"]
    /\ UNCHANGED <<wsClients, bcPc, bcTodo, bcConn, bcQueue>>
    /\ UNCHANGED <<baseVars, costVars, btVars, alVars>>

\* handleWebSocket: the write of "init" returns (its error is dropped) and
\* the read loop starts
EndInit(c) ==
    /\ wsPc[c] = "writingInit"
    /\ wsPc' = [wsPc EXCEPT ![c] = "reading"]
    /\ UNCHANGED <<wsClients, bcPc, bcTodo, bcConn, bcQueue>>
    /\ UNCHANGED <<baseVars, costVars, btVars, alVars>>

\* handleWebSocket: ReadMessage fails; the deferred function removes the
\* connection from clients under the write lock and closes it
Disconnect(c) ==
    /\ wsPc[c] = "reading"
    /\ WriteLockFree
    /\ wsPc' = [wsPc EXCEPT ![c] = "closed"]
    /\ wsClients' = wsClients \ {c}
    /\ UNCHANGED <<bcPc, bcTodo, bcConn, bcQueue>>
    /\ UNCHANGED <<baseVars, costVars, btVars, alVars>>

\* periodicUpdate: a tick; the "update" message is sent to the channel
PeriodicUpdate ==
    /\ bcQueue < MaxQueue
    /\ bcQueue' = bcQueue + 1
    /\ UNCHANGED <<wsPc, wsClients, bcPc, bcTodo, bcConn>>
    /\ UNCHANGED <<baseVars, costVars, btVars, alVars>>

\* handleBroadcast: a message is received, the read lock is taken and the
\* range over clients starts
BroadcastStart ==
    /\ bcPc = "idle"
    /\ bcQueue > 0
    /\ bcQueue' = bcQueue - 1
    /\ bcPc' = "ranging"
    /\ bcTodo' = wsClients
    /\ UNCHANGED <<wsPc, wsClients, bcConn>>
    /\ UNCHANGED <<baseVars, costVars, btVars, alVars>>

\* handleBroadcast: the range yields a connection and conn.WriteJSON of the
\* message begins
BroadcastWrite(c) ==
    /\ bcPc = "ranging"
    /\ c \in bcTodo
    /\ bcPc' = "writing"
    /\ bcConn' = c
    /\ bcTodo' = bcTodo \ {c}
    /\ UNCHANGED <<wsPc, wsClients, bcQueue>>
    /\ UNCHANGED <<baseVars, costVars, btVars, alVars>>

\* handleBroadcast: the write returns; on an error the connection is closed
\* and deleted from clients
BroadcastWritten ==
    /\ bcPc = "writing"
    /\ \E ok \in BOOLEAN :
         wsClients' = IF ok THEN wsClients ELSE wsClients \ {bcConn}
    /\ bcPc' = "ranging"
    /\ bcConn' = ""
    /\ UNCHANGED <<wsPc, bcTodo, bcQueue>>
    /\ UNCHANGED <<baseVars, costVars, btVars, alVars>>

\* handleBroadcast: the range is over and the read lock is released
BroadcastDone ==
    /\ bcPc = "ranging"
    /\ bcTodo = {}
    /\ bcPc' = "idle"
    /\ UNCHANGED <<wsPc, wsClients, bcTodo, bcConn, bcQueue>>
    /\ UNCHANGED <<baseVars, costVars, btVars, alVars>>

DashboardNext ==
    \/ \E c \in Conns : UpgradeFails(c)
    \/ \E c \in Conns : Register(c)
    \/ \E c \in Conns : BeginInit(c)
    \/ \E c \in Conns : EndInit(c)
    \/ \E c \in Conns : Disconnect(c)
    \/ PeriodicUpdate
    \/ BroadcastStart
    \/ \E c \in Conns : BroadcastWrite(c)
    \/ BroadcastWritten
    \/ BroadcastDone

SpecDashboard == DashboardInit /\ [][DashboardNext]_vars

----------------------------------------------------------------------------
(* Claims on detectAnomaly *)

Evaluated == an # NoResult

\* the combined series historical + [current] of the evaluation
CombinedSeries == Append(anHistorical, anRecord.powerKW)

\* the sub-detectors' verdict on the current point, the last of the series
CurrentFlagged ==
    LET lib == CombinedSeries
    IN \/ Len(lib) \in DetectSpikes(lib, an.window, an.sigma)
       \/ Len(lib) \in DetectOutliers(lib)

\* C1: with a non-empty historical window, isAnomaly is true if and only if
\* the spike test or the outlier test flags the current point; a flag on a
\* historical point alone never makes the current reading anomalous.
C1_AnomalyIffCurrentFlagged ==
    (Evaluated /\ Len(anHistorical) > 0) => (an.isAnomaly <=> CurrentFlagged)

\* C2 (as claimed): with a non-empty window of mean m and current power p,
\* severity is critical exactly when m > 0 and p >= 2m; otherwise high
\* exactly when p >= 1.5m, for every m including m <= 0; otherwise low.
C2_SeverityHighForAnyMean ==
    (Evaluated /\ Len(anHistorical) > 0) =>
        LET S == SeqSum(anHistorical)
            n == Len(anHistorical)
            p == anRecord.powerKW
            crit == S > 0 /\ p * n >= 2 * S
            high == ~crit /\ 2 * p * n >= 3 * S
        IN /\ (an.severity = "critical") <=> crit
           /\ (an.severity = "high") <=> high
           /\ (an.severity = "low") <=> (~crit /\ ~high)

\* C2 (amended): with a non-empty window of mean m and current power p,
\* severity is critical exactly when m > 0 and p >= 2m, high exactly when
\* m > 0 and 1.5m <= p < 2m, and low in every other case (always low when
\* m <= 0); exactly one tier applies.
C2_SeverityLadder ==
    (Evaluated /\ Len(anHistorical) > 0) =>
        LET S == SeqSum(anHistorical)
            n == Len(anHistorical)
            p == anRecord.powerKW
        IN /\ (an.severity = "critical") <=> (S > 0 /\ p * n >= 2 * S)
           /\ (an.severity = "high") <=> (S > 0 /\ 2 * p * n >= 3 * S /\ p * n < 2 * S)
           /\ (an.severity = "low") <=> (S <= 0 \/ 2 * p * n < 3 * S)

\* a reading exactly at 1.5 times a positive mean was graded high
C2_Witness ==
    /\ Evaluated
    /\ Len(anHistorical) > 0
    /\ SeqSum(anHistorical) > 0
    /\ 2 * anRecord.powerKW * Len(anHistorical) = 3 * SeqSum(anHistorical)
    /\ an.severity = "high"

\* C3: with an empty historical window and a positive current power the
\* result is anomalous at severity low, and the Handler goes on to raise the
\* alert for that record.
C3_NoHistoryPositiveIsLowAnomaly ==
    (anPc \in {"evaluated", "alerted"} /\ Len(anHistorical) = 0 /\ anRecord.powerKW > 0) =>
        /\ an.isAnomaly
        /\ an.severity = "low"
        /\ anPc = "alerted"

\* a first positive reading without history was evaluated and alerted
C3_Witness ==
    /\ anPc = "alerted"
    /\ Len(anHistorical) = 0
    /\ anRecord.powerKW > 0
    /\ an.isAnomaly

\* the order low < medium < high < critical
severityRank(sev) ==
    CASE sev = "low" -> 0
      [] sev = "medium" -> 1
      [] sev = "high" -> 2
      [] sev = "critical" -> 3

\* the severity detectAnomaly gives the current power p over the window
\* of the evaluation
SeverityAt(p) == severityOf(p, anHistorical)

\* C13: for a fixed historical window, raising the current power never
\* lowers the severity in the order low < medium < high < critical.
C13_SeverityMonotone ==
    Evaluated =>
        LET rank == [p \in Powers |-> severityRank(SeverityAt(p))]
        IN /\ an.severity = detectAnomaly(anRecord.powerKW, anHistorical,
                                           anWindow, anSigma).severity
           /\ severityRank(an.severity) = rank[anRecord.powerKW]
           /\ \A p1, p2 \in Powers : p1 <= p2 => rank[p1] <= rank[p2]

\* over the evaluated window the severity climbs from low through high to
\* critical as the current power grows
C13_Witness ==
    /\ Evaluated
    /\ an.severity = "high"
    /\ \E p1, p2 \in Powers :
        /\ p1 < anRecord.powerKW /\ anRecord.powerKW < p2
        /\ SeverityAt(p1) = "low"
        /\ SeverityAt(p2) = "critical"

\* C16: an alert is stored or a notification published for a stream record
\* only if that record is an INSERT/MODIFY carrying its key fields and
\* detectAnomaly returned isAnomaly = true for its reading; every stored
\* alert has acknowledged = false; a record that is skipped, whose history
\* cannot be fetched or whose reading is not anomalous creates no alert.
C16_AlertOnlyOnAnomaly ==
    /\ (alerts # <<>> \/ published # <<>>) =>
          /\ anRecord.eventName \in {"INSERT", "MODIFY"}
          /\ anRecord.keysOk
          /\ Evaluated
          /\ an = detectAnomaly(anRecord.powerKW, anHistorical, anWindow, anSigma)
          /\ an.isAnomaly
    /\ \A i \in 1..Len(alerts) :
          /\ alerts[i].acknowledged = FALSE
          /\ alerts[i].severity = an.severity
    /\ Len(alerts) <= 1 /\ Len(published) <= 1
    /\ anPc \in {"skipped", "histError", "evaluated"} =>
          alerts = <<>> /\ published = <<>>

\* an anomalous reading was stored as an unacknowledged alert and notified
C16_Witness ==
    /\ anPc = "alerted"
    /\ Len(alerts) = 1
    /\ Len(published) = 1
    /\ ~alerts[1].acknowledged
    /\ Len(anHistorical) > 0

\* C19: a zero or negative window size handed to detectAnomaly is rejected:
\* the call yields no AnomalyResult and no alert is raised from it.
C19_NonPositiveWindowRejected ==
    anWindow <= 0 =>
        /\ an = NoResult
        /\ alerts = <<>>
        /\ published = <<>>

----------------------------------------------------------------------------
(* Claims on the daily report *)

\* the powers of the readings the Handler aggregated
InputPowers == {lambdaResp.readings[i].powerKW : i \in 1..Len(lambdaResp.readings)}

\* the powers of the aggregated readings that fall in hour h
PowersInHour(h) ==
    {lambdaResp.readings[i].powerKW :
        i \in {j \in 1..Len(lambdaResp.readings) :
                  HourStr(lambdaResp.readings[j].timestamp) = h}}

SetMax(S) == CHOOSE x \in S : \A y \in S : x >= y
SetMin(S) == CHOOSE x \in S : \A y \in S : x <= y

RECURSIVE SumOfCounts(_, _)
SumOfCounts(H, keys) ==
    IF keys = {} THEN 0
    ELSE LET k == CHOOSE x \in keys : TRUE
         IN H[k].count + SumOfCounts(H, keys \ {k})

\* C4: when the requested (facility, date) has no readings, the Lambda
\* answers 200 "No data to process", GenerateDailyReport returns no error and
\* the HTTP handler does not answer 500.
C4_NoDataIsNotAnError ==
    (lambdaResp # NoResult /\ ~lambdaResp.funcError /\ Len(lambdaResp.readings) = 0) =>
        /\ lambdaResp.statusCode = 200
        /\ lambdaResp.message = "No data to process"
        /\ apiResult.err = ""
        /\ httpStatus # 500

\* C5: the peak hour is a bucket of highest maxPower and, among the buckets
\* with that maxPower, the lexicographically smallest hour string, whatever
\* the map's iteration order; it is the empty string only for an empty map.
C5_PeakHourIsSmallestOfHighest ==
    /\ derivePeakHour(EmptyHourly, <<>>) = EmptyString
    /\ Processed =>
        LET H == lambdaResp.analytics.hourlyData
            h == lambdaResp.analytics.peakHour
        IN /\ h # EmptyString
           /\ h \in DOMAIN H
           /\ \A k \in DOMAIN H :
                /\ H[h].maxPower >= H[k].maxPower
                /\ (H[k].maxPower = H[h].maxPower /\ k # h) => StrLess(h, k)

\* two hours tie on the highest maxPower and the peak hour was derived
C5_Witness ==
    /\ Processed
    /\ \E k \in DOMAIN lambdaResp.analytics.hourlyData :
        /\ k # lambdaResp.analytics.peakHour
        /\ lambdaResp.analytics.hourlyData[k].maxPower
             = lambdaResp.analytics.hourlyData[lambdaResp.analytics.peakHour].maxPower

\* C6: for every non-empty sequence of readings, all-negative and all-equal
\* ones included, peak power is the maximum and min power the minimum of the
\* power values.
C6_PeakAndMinAreExtrema ==
    Processed =>
        /\ lambdaResp.analytics.peakPower = round2(Frac(SetMax(InputPowers), 1))
        /\ lambdaResp.analytics.minPower = round2(Frac(SetMin(InputPowers), 1))

\* a day whose readings are all negative was aggregated
C6_Witness ==
    /\ Processed
    /\ Len(lambdaResp.readings) >= 2
    /\ \A x \in InputPowers : x < 0
    /\ lambdaResp.analytics.peakPower < 0

\* C7: for every hour bucket, maxPower equals the maximum powerKW among the
\* readings that fall in that hour, for any readings.
C7_BucketMaxIsMaximum ==
    Processed =>
        \A h \in DOMAIN lambdaResp.analytics.hourlyData :
            lambdaResp.analytics.hourlyData[h].maxPower = SetMax(PowersInHour(h))

\* C8: every bucket has count > 0 and avgPower = totalPower / count, and an
\* hour without readings has no entry.
C8_BucketAverage ==
    Processed =>
        LET H == lambdaResp.analytics.hourlyData
        IN /\ DOMAIN H = {HourStr(lambdaResp.readings[i].timestamp) :
                            i \in 1..Len(lambdaResp.readings)}
           /\ \A h \in DOMAIN H :
                /\ H[h].count > 0
                /\ H[h].avgPower.den > 0
                /\ H[h].avgPower.num * H[h].count = H[h].totalPower * H[h].avgPower.den

\* a bucket of two readings whose total is odd, next to an hour left empty
C8_Witness ==
    /\ Processed
    /\ \E h \in DOMAIN lambdaResp.analytics.hourlyData :
        /\ lambdaResp.analytics.hourlyData[h].count = 2
        /\ lambdaResp.analytics.hourlyData[h].totalPower % 2 = 1
    /\ HourStr(32400) \notin DOMAIN lambdaResp.analytics.hourlyData

\* C9: readingCount equals the sum of count over all buckets; every input
\* reading is counted in exactly one bucket.
C9_ReadingCountIsSumOfBuckets ==
    Processed =>
        LET H == lambdaResp.analytics.hourlyData
        IN /\ lambdaResp.analytics.readingCount = Len(lambdaResp.readings)
           /\ lambdaResp.analytics.readingCount = SumOfCounts(H, DOMAIN H)
           /\ \A h \in DOMAIN H :
                H[h].count = Cardinality({i \in 1..Len(lambdaResp.readings) :
                                HourStr(lambdaResp.readings[i].timestamp) = h})

\* three readings were spread over two buckets
C9_Witness ==
    /\ Processed
    /\ lambdaResp.analytics.readingCount = 3
    /\ Cardinality(DOMAIN lambdaResp.analytics.hourlyData) = 2

\* C10: the reported power factor lies in [0, 1] (0..1000 thousandths) for
\* any readings.
C10_PowerFactorInUnitInterval ==
    Processed =>
        /\ lambdaResp.analytics.powerFactor >= 0
        /\ lambdaResp.analytics.powerFactor <= 1000

\* the product avgVoltage * avgCurrent of the aggregated readings, unclamped
RawApparent ==
    LET rs   == lambdaResp.readings
        avgV == averageFloat([i \in 1..Len(rs) |-> rs[i].voltage])
        avgI == averageFloat([i \in 1..Len(rs) |-> rs[i].current])
    IN Frac(avgV.num * avgI.num, avgV.den * avgI.den)

\* C11: whenever avgVoltage * avgCurrent is zero or negative the reported
\* power factor is exactly 0; the converter's efficiency division is never
\* invoked with a non-positive apparent power; no divisor of the
\* aggregation is zero.
C11_NoEfficiencyOnNonPositiveApparent ==
    Processed =>
        LET calls == efficiencyCalls(lambdaResp.readings)
        IN /\ RawApparent.num <= 0 => lambdaResp.analytics.powerFactor = 0
           /\ RawApparent.num <= 0 => calls = <<>>
           /\ \A i \in DOMAIN calls : calls[i].num > 0 /\ calls[i].den > 0
           /\ RawApparent.den > 0
           /\ Len(lambdaResp.readings) > 0

\* a day whose average voltage is exactly 0 while its average power is not
C11_Witness ==
    /\ Processed
    /\ RawApparent.num = 0
    /\ lambdaResp.analytics.averagePower # 0
    /\ lambdaResp.analytics.powerFactor = 0

\* C12: aggregating the same readings for the same date again yields the
\* same record on every field (createdAt is not part of the record): every
\* summary stored and every report uploaded for the day equals the record
\* of the latest run, and the record is the same under every iteration
\* order of the hourly map.
C12_ReaggregationIsIdentical ==
    Processed =>
        /\ \A i \in 1..Len(summaries) : summaries[i] = lambdaResp.analytics
        /\ \A i \in 1..Len(reports) : reports[i] = lambdaResp.analytics
        /\ \A o \in IterationOrders(lambdaResp.analytics.hourlyData) :
              calculateDailyAnalytics(lambdaResp.readings, lambdaResp.date, o)
                  = lambdaResp.analytics

\* a day with two hour buckets was aggregated and stored twice
C12_Witness ==
    /\ Processed
    /\ Len(summaries) = 2
    /\ Cardinality(DOMAIN lambdaResp.analytics.hourlyData) >= 2
    /\ Len(lambdaResp.analytics.movingAverage) >= 2

----------------------------------------------------------------------------
(* Claims on generateRecommendations *)

RecCategories == [i \in DOMAIN recs.list |-> recs.list[i].category]

HasRec(category) == \E i \in DOMAIN recs.list : recs.list[i].category = category

\* the position of a category in the fixed order
CategoryIndex(category) ==
    CASE category = "consumption" -> 1
      [] category = "efficiency" -> 2
      [] category = "quality" -> 3
      [] category = "optimization" -> 4

\* C14: each of the four rules yields its message exactly when its own
\* condition holds (averagePower > 50; 0 < powerFactor < 0.85;
\* voltageStdDev > 10; peakHour non-empty and in 09..17), whatever the
\* other rules do, at most once, in the order consumption, efficiency,
\* quality, optimization; a power factor of 0 yields no efficiency message.
C14_RecommendationRules ==
    recs # NoResult =>
        /\ HasRec("consumption") <=> recInput.averagePower > 5000
        /\ HasRec("efficiency") <=>
              (0 < recInput.powerFactor /\ recInput.powerFactor < 850)
        /\ HasRec("quality") <=> recInput.voltageStdDev > 10000
        /\ HasRec("optimization") <=>
              /\ recInput.peakHour # EmptyString
              /\ recInput.peakHour \in {<<0, 9>>, <<1, 7>>}
        /\ \A i, j \in DOMAIN recs.list :
              i < j => CategoryIndex(RecCategories[i]) < CategoryIndex(RecCategories[j])
        /\ recInput.powerFactor = 0 => ~HasRec("efficiency")

\* the four rules fired together
C14_Witness ==
    /\ recs # NoResult
    /\ Len(recs.list) = 4
    /\ recInput.powerFactor = 849

----------------------------------------------------------------------------
(* Claims on getHistoricalReadings *)

\* the page the store delivered to the call
HistPage == QueryPage(histTable, histStart, HistNow, histLimit)

\* the readings of the page that belong to the requested meter
HistWanted ==
    {HistPage[i] : i \in {j \in DOMAIN HistPage :
                             histMeter = "" \/ HistPage[j].meterId = histMeter}}

\* C15: from a page delivered newest first, getHistoricalReadings returns
\* exactly the page's readings of the requested meter (all of them for an
\* empty meter id), each once, in ascending timestamp order, and at most
\* `limit` of them.
C15_HistoryFilteredAscending ==
    (histOut # NoResult /\ ~histOut.err) =>
        LET out == histOut.readings
        IN /\ {out[i] : i \in DOMAIN out} = HistWanted
           /\ Len(out) = Cardinality(HistWanted)
           /\ \A i, j \in DOMAIN out : i < j => out[i].timestamp < out[j].timestamp
           /\ Len(out) <= histLimit

\* a page of three readings, newest first, one of another meter, cut by
\* the limit, came back as two readings
C15_Witness ==
    /\ histOut # NoResult /\ ~histOut.err
    /\ Len(HistPage) = 3
    /\ HistPage[1].timestamp > HistPage[2].timestamp
    /\ Len(histOut.readings) = 2
    /\ Len(QueryRange(histTable, histStart, HistNow)) > histLimit

----------------------------------------------------------------------------
(* Claims on getReadingsForDate *)

\* the readings of the requested day, in the store's order
DayReadings ==
    QueryRange(readingsTable, lambdaResp.date * SecondsPerDay,
               lambdaResp.date * SecondsPerDay + SecondsPerDay)

\* the response of a Handler run that reads exactly the readings the
\* truncated run fetched, in one complete page
CompleteRunResponses ==
    {Handler(dayFetch.readings, lambdaResp.date,
             [failAt |-> 0, storeOk |-> lambdaResp.stored,
              reportOk |-> lambdaResp.uploaded, order |-> o]) :
        o \in OrdersFor(dayFetch.readings, lambdaResp.date, PageLimit)}

\* C17: when the page-count guardrail stops the pagination while the store
\* still returns a continuation key, getReadingsForDate returns without
\* error the readings of the pages fetched, in page order, and the Handler
\* can tell the truncated result from a complete one: its response differs
\* from the response to a complete read of the same readings.
C17_TruncationSurfaced ==
    (dayFetch # NoResult /\ dayFetch.warned) =>
        /\ ~dayFetch.err
        /\ dayFetch.readings = SubSeq(DayReadings, 1, dayFetch.queries * pageLimit)
        /\ lambdaResp \notin CompleteRunResponses

\* C18: when the event date does not parse, getReadingsForDate fails before
\* any store query; when a page query fails, the readings of the earlier
\* pages are dropped.  Either way only the error is returned, the Handler
\* answers 500, no summary is stored and no report is uploaded.
C18_ErrorsReturnNoPartialResult ==
    /\ (lambdaResp # NoResult /\ lambdaResp.date = BadDate) =>
          dayFetch.err /\ dayFetch.queries = 0
    /\ (dayFetch # NoResult /\ dayFetch.err) =>
          /\ dayFetch.readings = <<>>
          /\ lambdaResp.statusCode = 500
          /\ lambdaResp.funcError
          /\ ~lambdaResp.hasAnalytics
          /\ lambdaResp.readings = <<>>
          /\ summaries = <<>>
          /\ reports = <<>>

\* the second page query failed after a first page had been fetched
C18_Witness ==
    /\ dayFetch # NoResult
    /\ dayFetch.err
    /\ dayFetch.queries = 2
    /\ Len(readingsTable) >= 2
    /\ lambdaResp.statusCode = 500

----------------------------------------------------------------------------
(* Claims on ReadingService.FromMQTT *)

InvocationsOf(k) == {i \in DOMAIN mqInvocations : mqInvocations[i].call = k}

StoredOf(k) == {i \in DOMAIN mqStore : mqStore[i].call = k}

\* C20: in cloud mode the error FromMQTT returned is decided by the parsing
\* of the payload and the persistence of the reading alone, whatever has
\* become of the detection goroutines; a goroutine exists only for a call
\* whose reading was persisted; a call that returned nil keeps its stored
\* reading whether its goroutine is running, has succeeded or has failed;
\* a call whose persistence failed returned the error, stored nothing and
\* started no detection.
C20_IngestIndependentOfDetection ==
    mqConfig.useCloud =>
        \A k \in DOMAIN mqCalls :
            LET c == mqCalls[k]
            IN /\ c.err = (IF ~c.payload.valid THEN "unmarshal"
                           ELSE IF ~c.persistOk THEN "put reading" ELSE "")
               /\ Cardinality(InvocationsOf(k)) <= 1
               /\ InvocationsOf(k) # {} => (c.err = "" /\ StoredOf(k) # {})
               /\ c.err = "" =>
                     /\ Cardinality(StoredOf(k)) = 1
                     /\ \A i \in StoredOf(k) : mqStore[i].powerKW = c.payload.powerKW
                     /\ mqConfig.hasLambda => InvocationsOf(k) # {}
               /\ c.err # "" => (StoredOf(k) = {} /\ InvocationsOf(k) = {})

\* FromMQTT has returned nil for a reading whose detection then failed, and
\* has handled a later message while another detection was still running
C20_Witness ==
    /\ mqConfig.useCloud
    /\ \E i, j \in DOMAIN mqInvocations :
        /\ mqInvocations[i].status = "failed"
        /\ mqCalls[mqInvocations[i].call].err = ""
        /\ StoredOf(mqInvocations[i].call) # {}
        /\ mqInvocations[j].status = "running"
        /\ mqInvocations[j].call < Len(mqCalls)
    /\ \E k \in DOMAIN mqCalls : mqCalls[k].err = "put reading"

----------------------------------------------------------------------------
(* Claims about the pagination guardrail and the Handler's store errors *)

\* C21: getReadingsForDate never issues more store queries than the
\* guardrail maxPages, however many continuation keys the store returns.
C21_QueriesWithinMaxPages ==
    dayFetch # NoResult => dayFetch.queries <= MaxPages

\* C23: for a non-empty day whose summary could not be stored, the Handler
\* still attempts generateReport after storeAnalyticsSummary and answers 200
\* "Analytics processed successfully" with the analytics computed from the
\* day's readings; in every processed run the summary is stored before the
\* report upload is attempted.
C23_StoreFailureNonFatal ==
    Processed =>
        /\ lambdaResp.effects = <<"storeAnalyticsSummary", "generateReport">>
        /\ ~lambdaResp.stored =>
              /\ lambdaResp.statusCode = 200
              /\ ~lambdaResp.funcError
              /\ lambdaResp.message = "Analytics processed successfully"
              /\ \E o \in OrdersFor(readingsTable, lambdaResp.date, pageLimit) :
                    lambdaResp.analytics =
                        calculateDailyAnalytics(dayFetch.readings, lambdaResp.date, o)
              /\ summaries = <<>>

\* a run whose summary put failed and whose report was uploaded all the same
C23_Witness ==
    /\ Processed
    /\ ~lambdaResp.stored
    /\ lambdaResp.uploaded
    /\ summaries = <<>>
    /\ reports = <<lambdaResp.analytics>>

----------------------------------------------------------------------------
(* Claims about the time ranges of the two readings queries *)

\* the readings of the table stamped within the calendar day `date`
CalendarDay(table, date) ==
    SelectSeq(table, LAMBDA r : /\ date * SecondsPerDay <= r.timestamp
                                /\ r.timestamp < date * SecondsPerDay + SecondsPerDay)

\* C26: for the requested date D, getReadingsForDate selects exactly the
\* readings with start(D) <= timestamp < start(D) + 24h, and none of the
\* readings it selects is selected for another date.
C26_ReadingInExactlyOneDay ==
    (dayFetch # NoResult /\ ~dayFetch.err) =>
        /\ dayFetch.readings = CalendarDay(readingsTable, lambdaResp.date)
        /\ \A d \in Dates \ {lambdaResp.date} :
           \A i \in DOMAIN dayFetch.readings :
              \A j \in DOMAIN getReadingsForDate(readingsTable, d, PageLimit, 0).readings :
                 getReadingsForDate(readingsTable, d, PageLimit, 0).readings[j]
                     # dayFetch.readings[i]

\* the reading whose insertion the stream record reports: the newest row
JustInserted == histTable[Len(histTable)]

\* C27: when the Handler fetches the baseline for a reading that has just
\* been inserted (the newest row, of the meter asked for, inside the
\* look-back window), the baseline does not contain that reading.
C27_BaselineExcludesCurrent ==
    ( /\ histOut # NoResult /\ ~histOut.err
      /\ histTable # <<>>
      /\ histMeter = JustInserted.meterId
      /\ JustInserted.timestamp >= histStart ) =>
        \A i \in DOMAIN histOut.readings : histOut.readings[i] # JustInserted

----------------------------------------------------------------------------
(* Claims about the reported costs *)

\* C25: in every DailyAnalytics the reported estimated cost equals the sum
\* of the two reported cost-breakdown entries, peak + offpeak, as rounded to
\* two decimals, for every total consumption.
C25_EstimatedCostIsSumOfBreakdown ==
    costOut # NoResult =>
        costOut.estimatedCost = costOut.costBreakdown.peak + costOut.costBreakdown.offpeak

----------------------------------------------------------------------------
(* Claims about the anomaly Handler over a batch *)

\* the record reaches detectAnomaly when handled on its own
Evaluable(rec) ==
    /\ rec.eventName \in {"INSERT", "MODIFY"}
    /\ rec.parseOk /\ rec.keysOk /\ rec.histOk

\* C22: the Handler returns nil for every batch and handles every record of
\* it as it would handle the record alone, whatever failed on the records
\* before it: each evaluable record is evaluated, and for each anomalous
\* record the alert put and then the notification are attempted, the
\* notification also when the put failed.
C22_RecordsIndependent ==
    btOut # NoResult =>
        /\ btOut.err = "nil"
        /\ Len(btOut.logs) = Len(btBatch)
        /\ \A i \in DOMAIN btBatch :
              /\ btOut.logs[i] = handleRecord(btBatch[i])
              /\ Evaluable(btBatch[i]) <=> btOut.logs[i].evaluated
              /\ btOut.logs[i].outcome = "anomaly" =>
                    /\ btOut.logs[i].storeAttempted
                    /\ btOut.logs[i].notifyAttempted
                    /\ btOut.logs[i].stored = btBatch[i].storeOk
                    /\ btOut.logs[i].notified = btBatch[i].snsOk

\* a batch of three: the first record's alert put failed and it was still
\* notified, the second record's historical query failed, the third was
\* evaluated and alerted
C22_Witness ==
    /\ btOut # NoResult
    /\ Len(btBatch) = 3
    /\ btOut.logs[1].outcome = "anomaly"
    /\ ~btOut.logs[1].stored /\ btOut.logs[1].notified
    /\ btOut.logs[2].outcome = "histError"
    /\ btOut.logs[3].outcome = "anomaly" /\ btOut.logs[3].stored

----------------------------------------------------------------------------
(* Claims about AlertService.CreateAlert *)

\* C24: in cloud mode CreateAlert attempts the notification only when the
\* alert was persisted; when the put fails it returns an error and publishes
\* nothing; when the publish fails the alert is in the table and CreateAlert
\* returns nil.  Every notification published belongs to a persisted alert.
C24_PublishOnlyAfterPersist ==
    /\ \A i \in DOMAIN alCalls :
         LET c == alCalls[i]
         IN c.cloud =>
              /\ c.publishAttempted => c.persisted
              /\ ~c.persisted => c.err # "nil" /\ ~c.published
              /\ c.persisted => c.err = "nil" /\ \E a \in alStore : a.alertId = c.id
    /\ \A k \in DOMAIN alPublished :
         alCalls[alPublished[k].tag].persisted

\* one call whose put failed and published nothing, and one call whose
\* alert is stored although its publish failed
C24_Witness ==
    /\ alConfig.useCloud /\ alConfig.hasSNS
    /\ \E i, j \in DOMAIN alCalls :
         /\ ~alCalls[i].persisted /\ alCalls[i].err # "nil"
         /\ alCalls[j].persisted /\ alCalls[j].publishAttempted
         /\ ~alCalls[j].published /\ alCalls[j].err = "nil"
    /\ alPublished = <<>>
    /\ Cardinality(alStore) = 1

\* C28: alerts created back to back receive distinct ids, so that no put
\* overwrites a stored alert: the number of stored alerts is the number of
\* successful creations.
C28_DistinctAlertIds ==
    LET created == {i \in DOMAIN alCalls : alCalls[i].persisted}
    IN /\ \A i, j \in created : i # j => alCalls[i].id # alCalls[j].id
       /\ Cardinality(alStore) = Cardinality(created)

----------------------------------------------------------------------------
(* Claims about AlertService.DetectAnomalies *)

\* the number of entries of the sequence that satisfy the test
CountIn(seq, Test(_)) == Cardinality({k \in DOMAIN seq : Test(seq[k])})

\* C29: a DetectAnomalies call that returns nil has created one alert for
\* each reading above 1.5 times the average of the batch and none for the
\* other readings, and has published at most one notification for each
\* reading above the threshold and none for the others.
C29_OneAlertOneNotification ==
    (alCalls # <<>> /\ alCalls[1].err = "nil") =>
        LET readings == alCalls[1].readings
        IN \A i \in DOMAIN readings :
             LET nAlerts == Cardinality({a \in alStore : a.message = i})
                 nSent   == CountIn(alPublished, LAMBDA n : n.tag = i)
             IN IF exceedsThreshold(readings[i], readings)
                THEN nAlerts = 1 /\ nSent <= 1
                ELSE nAlerts = 0 /\ nSent = 0

----------------------------------------------------------------------------
(* Claims about the dashboard's websocket writes *)

\* the goroutines with a WriteJSON in progress on the connection
Writers(c) ==
    (IF wsPc[c] = "writingInit" THEN {"handleWebSocket"} ELSE {})
    \cup (IF bcPc = "writing" /\ bcConn = c THEN {"handleBroadcast"} ELSE {})

\* C30: at most one goroutine is writing to a websocket connection at any
\* time: the "init" write of handleWebSocket and an "update" write of
\* handleBroadcast to the same connection are never both in progress.
C30_SingleWriterPerConnection ==
    \A c \in Conns : Cardinality(Writers(c)) <= 1

=============================================================================
